---- MODULE Spec2Model ----
(***************************************************************************)
(* conservationd: the poll loop (main/runOnce), the shared state guarded   *)
(* by st.mu, and the control-socket handlers (acceptLoop/handleConn).      *)
(*                                                                         *)
(* Percentages are float64 in the source; here they are finite numbers     *)
(* counted in half percents (Percent == 2), so that 69.5 is a value and    *)
(* the truncation of time.Duration(float64) is visible.  Instants are      *)
(* counted in seconds since local midnight of day 0.                       *)
(***************************************************************************)
EXTENDS Integers, Sequences, FiniteSets, TLC

(* ---------------------------- units ------------------------------------ *)
Percent == 2
Second  == 1
Minute  == 60 * Second
Hour    == 60 * Minute
Day     == 24 * Hour

(* ---------------------------- bounds ----------------------------------- *)
MaxConns == 2

(* ---------------------------- values ----------------------------------- *)
P40    == 40 * Percent
P50    == 50 * Percent
P60    == 60 * Percent
P69_5  == 69 * Percent + 1
P70    == 70 * Percent
P80    == 80 * Percent
P95    == 95 * Percent
P100   == 100 * Percent
P101   == 101 * Percent

BatteryStateUnknown   == 0
BatteryStateCharging  == 1
BatteryStateDischarge == 2

T0200    == 2 * Hour
T0830    == 8 * Hour + 30 * Minute
T0834_45 == 8 * Hour + 34 * Minute + 45 * Second
T0859    == 8 * Hour + 59 * Minute
T0859_30 == 8 * Hour + 59 * Minute + 30 * Second
T0901    == 9 * Hour + 1 * Minute
T2359_30 == 23 * Hour + 59 * Minute + 30 * Second

NoTime == -1   \* TargetTime == nil

(* ---------------------------- input sets ------------------------------- *)
\* What the environment may supply: the command line, the UPower readings,
\* the instants the clock passes through, the connections and their requests.

\* The control plane: every connection, with a poll loop whose sensors work.
CtlInputs ==
    [flagMax   |-> {P80, P95, P101},          \* -max
     flagThr   |-> {P40, P80},                \* -conservation-threshold
     flagAuto  |-> {FALSE},                   \* -auto
     flagDry   |-> {FALSE},                   \* -dry-run
     flagOnce  |-> BOOLEAN,                   \* -once
     hwInit    |-> {0},                       \* conservation_mode at startup
     readings  |-> {P95},                     \* UPower Percentage
     states    |-> {BatteryStateCharging},    \* UPower State
     instants  |-> {T0200, T0901},
     conns     |-> 1 .. MaxConns,
     reqMax    |-> {P70, P80, P95, P101},     \* Req.Max
     reqTime   |-> {"", "now", "09:00", "9am"},   \* Req.Time
     reqAuto   |-> {"nil", "true"}]               \* Req.Auto (*bool)

\* The decision engine: one connection, more readings and instants, sensors
\* and writes that may fail, dry-run.
EngInputs ==
    [flagMax   |-> {P80, P100},
     flagThr   |-> {P80},
     flagAuto  |-> BOOLEAN,
     flagDry   |-> BOOLEAN,
     flagOnce  |-> {FALSE},
     hwInit    |-> {0, 1},
     readings  |-> {P60, P69_5, P70, P95},
     states    |-> {BatteryStateCharging},
     instants  |-> {T0200, T0830, T0859_30, T0901},
     conns     |-> {1},
     reqMax    |-> {P70, P80, P95},
     reqTime   |-> {"", "09:00"},
     reqAuto   |-> {"nil", "true"}]

\* The clock of a set: one client, requests at instants around the parsed
\* time and around midnight.
ClockInputs ==
    [flagMax   |-> {P95},
     flagThr   |-> {P80},
     flagAuto  |-> {FALSE},
     flagDry   |-> {FALSE},
     flagOnce  |-> {FALSE},
     hwInit    |-> {0},
     readings  |-> {P60, P69_5, P95},
     states    |-> {BatteryStateCharging},
     instants  |-> {T0834_45, T0859, T0859_30, T0901, T2359_30},
     conns     |-> {1},
     reqMax    |-> {P95, P100},
     reqTime   |-> {"", "00:00", "09:00", "9am"},
     reqAuto   |-> {"nil"}]

\* The poll loop alone: no client, so the configuration is the one of the
\* command line; auto off, so the decision is fixed by the configuration,
\* the percent and levelReached.
LoopInputs ==
    [flagMax   |-> {P80, P95},
     flagThr   |-> {P80},
     flagAuto  |-> {FALSE},
     flagDry   |-> {FALSE},
     flagOnce  |-> {FALSE},
     hwInit    |-> {0, 1},
     readings  |-> {P60, P95},
     states    |-> {BatteryStateCharging, BatteryStateDischarge},
     instants  |-> {T0830, T0901}]

\* One client that may set a schedule for 09:00, in target mode (max 95)
\* or in threshold mode (max 80), and a clock that passes 09:00 of the day.
SchedInputs ==
    [flagMax   |-> {P95},
     flagThr   |-> {P80},
     flagAuto  |-> {FALSE},
     flagDry   |-> {FALSE},
     flagOnce  |-> {FALSE},
     hwInit    |-> {0},
     readings  |-> {P60, P95},
     states    |-> {BatteryStateCharging},
     instants  |-> {T0830, T0901},
     conns     |-> {1},
     reqMax    |-> {P80, P95},
     reqTime   |-> {"", "09:00"},
     reqAuto   |-> {"nil"}]

Conns == 1 .. MaxConns

(* ---------------------------- state ------------------------------------ *)
VARIABLES
    pc,        \* position of main / runOnce
    listening, \* acceptLoop has been started
    st,        \* SharedState: cfg, pct, bstate, cons, lastErr
    mu,        \* st.mu: 0 when free, else the connection holding it
    loc,       \* locals of runOnce: cfg, pct, state, cur, extConn, want, action
    hw,        \* content of the conservation_mode sysfs node
    now,       \* wall clock
    conn,      \* per connection: handler position, pending set, outcome
    hist       \* history: what the formulas need to remember

vars == <<pc, listening, st, mu, loc, hw, now, conn, hist>>

(* ---------------------------- time helpers ----------------------------- *)
\* time.Parse("15:04", s): the strings that parse, with their minute of day
Layout1504 == [s \in {"00:00", "09:00"} |-> IF s = "00:00" THEN 0 ELSE 9 * 60]

Parses(s) == s \in DOMAIN Layout1504

\* parseTimeString for an HH:MM string: today at HH:MM, or tomorrow when
\* that is before now + 1 minute
parseTimeString(s, t) ==
    IF s = "now" THEN t
    ELSE LET target == (t \div Day) * Day + Layout1504[s] * Minute
         IN  IF target < t + Minute THEN target + Day ELSE target

\* Time.Format("15:04")
Format1504(t) ==
    CHOOSE s \in DOMAIN Layout1504 : Layout1504[s] = (t % Day) \div Minute

timeStr(tt) == IF tt # NoTime THEN Format1504(tt) ELSE "now"

\* time.Duration(f) for a float64 f: truncation toward zero (whole units)
Trunc(d) == IF d >= 0 THEN d \div Percent ELSE -((-d) \div Percent)

\* mutant of chargingTimeNeeded: two minutes for each percent
chargingTimeNeededDouble(cfg, pct) == Trunc(cfg.MaxPercent - pct) * 2 * Minute

\* chargingTimeNeeded := time.Duration(cfg.MaxPercent-pct) * time.Minute
chargingTimeNeeded(cfg, pct) == Trunc(cfg.MaxPercent - pct) * Minute

startTime(cfg, pct) == cfg.TargetTime - chargingTimeNeeded(cfg, pct)

(* ---------------------------- decision --------------------------------- *)
\* mutant of ThresholdMode: the display is not consulted
ThresholdModeAlways(cfg, extConn) ==
    [want |-> 1, action |-> "enable_conservation_threshold_mode"]

\* lines 224-231: threshold mode
ThresholdMode(cfg, extConn) ==
    IF cfg.Auto /\ ~extConn
    THEN [want |-> 0, action |-> "disable_conservation_display_disconnected"]
    ELSE [want |-> 1, action |-> "enable_conservation_threshold_mode"]

\* mutant of StickyFires: > where the source has >=
StickyFiresStrict(cfg, pct) == ~cfg.LevelReached /\ pct > cfg.MaxPercent

\* line 234: the sticky update fires
StickyFires(cfg, pct) == ~cfg.LevelReached /\ pct >= cfg.MaxPercent

\* mutant of MissedDeadline: the comparison with the target is reversed
MissedDeadlineReversed(cfg, pct, extConn) ==
    IF cfg.Auto
    THEN IF extConn
         THEN [want |-> 1, action |-> "enable_conservation_display_connected"]
         ELSE [want |-> 0, action |-> "disable_conservation_display_disconnected"]
    ELSE IF pct <= cfg.MaxPercent
         THEN [want |-> 1, action |-> "enable_conservation_immediate"]
         ELSE [want |-> 0, action |-> "disable_conservation_immediate"]

\* lines 270-287: the immediate logic inlined in the missed-deadline case
MissedDeadline(cfg, pct, extConn) ==
    IF cfg.Auto
    THEN IF extConn
         THEN [want |-> 1, action |-> "enable_conservation_display_connected"]
         ELSE [want |-> 0, action |-> "disable_conservation_display_disconnected"]
    ELSE IF pct >= cfg.MaxPercent
         THEN [want |-> 1, action |-> "enable_conservation_immediate"]
         ELSE [want |-> 0, action |-> "disable_conservation_immediate"]

\* mutant of ScheduleMode: waiting for the window never consults auto
ScheduleModeWaitOn(cfg, pct, extConn, t) ==
    LET target == cfg.TargetTime
        none   == [clear |-> FALSE, reach |-> FALSE]
    IN  CASE cfg.LevelReached ->
               IF t > target
               THEN [want |-> 1, action |-> "enable_conservation_schedule_completed",
                     clear |-> TRUE, reach |-> FALSE]
               ELSE [want |-> 1, action |-> "enable_conservation_level_reached"] @@ none
          [] ~cfg.LevelReached /\ t > target ->
               MissedDeadline(cfg, pct, extConn) @@ [clear |-> TRUE, reach |-> FALSE]
          [] ~cfg.LevelReached /\ ~(t > target) /\ t > startTime(cfg, pct) ->
               [want |-> 0, action |-> "disable_conservation_scheduled_charging"] @@ none
          [] ~cfg.LevelReached /\ ~(t > target) /\ ~(t > startTime(cfg, pct))
                /\ pct >= cfg.MaxPercent ->
               [want |-> 1, action |-> "enable_conservation_target_percentage_reached",
                clear |-> FALSE, reach |-> TRUE]
          [] OTHER ->
               [want |-> 1, action |-> "enable_conservation_waiting_for_schedule"] @@ none

\* mutant of ScheduleMode: a completed schedule is left in place
ScheduleModeNoClear(cfg, pct, extConn, t) ==
    LET target == cfg.TargetTime
        none   == [clear |-> FALSE, reach |-> FALSE]
    IN  CASE cfg.LevelReached ->
               IF t > target
               THEN [want |-> 1, action |-> "enable_conservation_schedule_completed"] @@ none
               ELSE [want |-> 1, action |-> "enable_conservation_level_reached"] @@ none
          [] ~cfg.LevelReached /\ t > target ->
               MissedDeadline(cfg, pct, extConn) @@ [clear |-> TRUE, reach |-> FALSE]
          [] ~cfg.LevelReached /\ ~(t > target) /\ t > startTime(cfg, pct) ->
               [want |-> 0, action |-> "disable_conservation_scheduled_charging"] @@ none
          [] ~cfg.LevelReached /\ ~(t > target) /\ ~(t > startTime(cfg, pct))
                /\ pct >= cfg.MaxPercent ->
               [want |-> 1, action |-> "enable_conservation_target_percentage_reached",
                clear |-> FALSE, reach |-> TRUE]
          [] OTHER ->
               IF cfg.Auto /\ ~extConn
               THEN [want |-> 0, action |-> "disable_conservation_display_disconnected"] @@ none
               ELSE [want |-> 1, action |-> "enable_conservation_waiting_for_schedule"] @@ none

\* mutant of ScheduleMode: a missed deadline leaves the schedule in place
ScheduleModeKeepsMissed(cfg, pct, extConn, t) ==
    LET target == cfg.TargetTime
        none   == [clear |-> FALSE, reach |-> FALSE]
    IN  CASE cfg.LevelReached ->
               IF t > target
               THEN [want |-> 1, action |-> "enable_conservation_schedule_completed",
                     clear |-> TRUE, reach |-> FALSE]
               ELSE [want |-> 1, action |-> "enable_conservation_level_reached"] @@ none
          [] ~cfg.LevelReached /\ t > target ->
               MissedDeadline(cfg, pct, extConn) @@ none
          [] ~cfg.LevelReached /\ ~(t > target) /\ t > startTime(cfg, pct) ->
               [want |-> 0, action |-> "disable_conservation_scheduled_charging"] @@ none
          [] ~cfg.LevelReached /\ ~(t > target) /\ ~(t > startTime(cfg, pct))
                /\ pct >= cfg.MaxPercent ->
               [want |-> 1, action |-> "enable_conservation_target_percentage_reached",
                clear |-> FALSE, reach |-> TRUE]
          [] OTHER ->
               IF cfg.Auto /\ ~extConn
               THEN [want |-> 0, action |-> "disable_conservation_display_disconnected"] @@ none
               ELSE [want |-> 1, action |-> "enable_conservation_waiting_for_schedule"] @@ none

\* lines 253-310: the switch of the schedule sub-branch; clear and reach
\* tell which shared field the case writes under the lock
ScheduleMode(cfg, pct, extConn, t) ==
    LET target == cfg.TargetTime
        none   == [clear |-> FALSE, reach |-> FALSE]
    IN  CASE cfg.LevelReached ->
               IF t > target
               THEN [want |-> 1, action |-> "enable_conservation_schedule_completed",
                     clear |-> TRUE, reach |-> FALSE]
               ELSE [want |-> 1, action |-> "enable_conservation_level_reached"] @@ none
          [] ~cfg.LevelReached /\ t > target ->
               MissedDeadline(cfg, pct, extConn) @@ [clear |-> TRUE, reach |-> FALSE]
          [] ~cfg.LevelReached /\ ~(t > target) /\ t > startTime(cfg, pct) ->
               [want |-> 0, action |-> "disable_conservation_scheduled_charging"] @@ none
          [] ~cfg.LevelReached /\ ~(t > target) /\ ~(t > startTime(cfg, pct))
                /\ pct >= cfg.MaxPercent ->
               [want |-> 1, action |-> "enable_conservation_target_percentage_reached",
                clear |-> FALSE, reach |-> TRUE]
          [] OTHER ->
               IF cfg.Auto /\ ~extConn
               THEN [want |-> 0, action |-> "disable_conservation_display_disconnected"] @@ none
               ELSE [want |-> 1, action |-> "enable_conservation_waiting_for_schedule"] @@ none

\* mutant of ImmediateMode: auto is not consulted
ImmediateModeNoAuto(cfg, extConn) ==
    IF cfg.LevelReached
    THEN [want |-> 1, action |-> "enable_conservation_level_reached"]
    ELSE [want |-> 0, action |-> "disable_conservation_charging_to_target"]

\* lines 312-331: the immediate sub-branch
ImmediateMode(cfg, extConn) ==
    IF cfg.LevelReached
    THEN [want |-> 1, action |-> "enable_conservation_level_reached"]
    ELSE IF cfg.Auto
         THEN IF extConn
              THEN [want |-> 1, action |-> "enable_conservation_display_connected"]
              ELSE [want |-> 0, action |-> "disable_conservation_display_disconnected"]
         ELSE [want |-> 0, action |-> "disable_conservation_charging_to_target"]

\* mutant of TargetMode: the schedule is not consulted
TargetModeImmediateOnly(cfg, pct, extConn, t) ==
    ImmediateMode(cfg, extConn) @@ [clear |-> FALSE, reach |-> FALSE]

\* lines 241-332: target mode after the sticky update
TargetMode(cfg, pct, extConn, t) ==
    IF cfg.TargetTime # NoTime
    THEN ScheduleMode(cfg, pct, extConn, t)
    ELSE ImmediateMode(cfg, extConn) @@ [clear |-> FALSE, reach |-> FALSE]

(* ---------------------------- initial state ---------------------------- *)
NoLocals ==
    [cfg |-> [MaxPercent |-> 0, ConservationThreshold |-> 0, Auto |-> FALSE,
              DryRun |-> FALSE, Once |-> FALSE,
              TargetTime |-> NoTime, LevelReached |-> FALSE],
     pct |-> 0, state |-> BatteryStateUnknown, cur |-> 0,
     extConn |-> FALSE, want |-> 0, action |-> "none"]

NoConn == [pc |-> "none", cmd |-> "", max |-> 0, auto |-> "nil",
           ok |-> FALSE, msg |-> ""]

NoHist == [seenReached |-> FALSE, snapSeen |-> FALSE, snapCurrent |-> FALSE,
           writes |-> 0, completed |-> FALSE,
           committed |-> [max |-> 0, time |-> NoTime, auto |-> FALSE],
           prev |-> [set |-> FALSE, max |-> 0, reached |-> FALSE]]

\* parseFlags and st := &SharedState{cfg: cfg}
InitIn(I) ==
    /\ pc = "start"
    /\ listening = FALSE
    /\ \E m \in I.flagMax, th \in I.flagThr, a \in I.flagAuto,
          d \in I.flagDry, o \in I.flagOnce :
          st = [cfg |-> [MaxPercent |-> m, ConservationThreshold |-> th,
                         Auto |-> a, DryRun |-> d, Once |-> o,
                         TargetTime |-> NoTime, LevelReached |-> FALSE],
                pct |-> 0, bstate |-> BatteryStateUnknown, cons |-> 0,
                lastErr |-> ""]
    /\ mu = 0
    /\ loc = NoLocals
    /\ hw \in I.hwInit
    /\ now = T0200
    /\ conn = [c \in Conns |-> NoConn]
    /\ hist = NoHist

(* ---------------------------- main ------------------------------------- *)
\* mutant of ValidFlags: the lower bound of the threshold is not checked
ValidFlagsNoFloor(cfg) ==
    /\ ~(cfg.MaxPercent < cfg.ConservationThreshold \/ cfg.MaxPercent > P100)
    /\ ~(cfg.ConservationThreshold > P100)

\* lines 94-99: the startup validation
ValidFlags(cfg) ==
    /\ ~(cfg.MaxPercent < cfg.ConservationThreshold \/ cfg.MaxPercent > P100)
    /\ ~(cfg.ConservationThreshold < P50 \/ cfg.ConservationThreshold > P100)

\* mutant of Startup: the accept loop is started in every mode
StartupListens ==
    /\ pc = "start"
    /\ IF ValidFlags(st.cfg)
       THEN /\ pc' = "snap"
            /\ listening' = TRUE
            /\ hist' = [hist EXCEPT !.committed =
                          [max |-> st.cfg.MaxPercent, time |-> st.cfg.TargetTime,
                           auto |-> st.cfg.Auto]]
       ELSE /\ pc' = "exit"
            /\ UNCHANGED <<listening, hist>>
    /\ UNCHANGED <<st, mu, loc, hw, now, conn>>

\* lines 92-142: validate, start the accept loop unless Once, enter the loop
Startup ==
    /\ pc = "start"
    /\ IF ValidFlags(st.cfg)
       THEN /\ pc' = "snap"
            /\ listening' = ~st.cfg.Once
            /\ hist' = [hist EXCEPT !.committed =
                          [max |-> st.cfg.MaxPercent, time |-> st.cfg.TargetTime,
                           auto |-> st.cfg.Auto]]
       ELSE /\ pc' = "exit"
            /\ UNCHANGED <<listening, hist>>
    /\ UNCHANGED <<st, mu, loc, hw, now, conn>>

\* lines 139-153: where main goes when runOnce returns
EndTick == IF st.cfg.Once THEN "done" ELSE "wait"

\* the history of a tick ends with the tick
EndHist == [hist EXCEPT !.snapSeen = FALSE, !.snapCurrent = FALSE, !.writes = 0]

\* lines 149-151: the ticker fires
Ticker ==
    /\ pc = "wait"
    /\ pc' = "snap"
    /\ UNCHANGED <<listening, st, mu, loc, hw, now, conn, hist>>

(* ---------------------------- runOnce ---------------------------------- *)
\* lines 188-190: snapshot of the configuration under the lock
TickSnapshot ==
    /\ pc = "snap"
    /\ mu = 0
    /\ loc' = [NoLocals EXCEPT !.cfg = st.cfg]
    /\ pc' = "readPower"
    /\ hist' = [hist EXCEPT !.snapSeen = hist.seenReached,
                            !.snapCurrent = TRUE, !.writes = 0]
    /\ UNCHANGED <<listening, st, mu, hw, now, conn>>

\* line 192: readUPower succeeds
ReadUPowerOk(readings, states) ==
    /\ pc = "readPower"
    /\ \E p \in readings, s \in states :
          loc' = [loc EXCEPT !.pct = p, !.state = s]
    /\ pc' = "readCons"
    /\ UNCHANGED <<listening, st, mu, hw, now, conn, hist>>

\* lines 193-199: readUPower fails
ReadUPowerFail ==
    /\ pc = "readPower"
    /\ mu = 0
    /\ st' = [st EXCEPT !.lastErr = "upower"]
    /\ loc' = NoLocals
    /\ pc' = EndTick
    /\ hist' = EndHist
    /\ UNCHANGED <<listening, mu, hw, now, conn>>

\* mutant of ReadConservationOk: the flag is not read again, the value
\* published by the last tick is taken for it
ReadConservationStale ==
    /\ pc = "readCons"
    /\ loc' = [loc EXCEPT !.cur = st.cons, !.want = st.cons]
    /\ pc' = "mode"
    /\ UNCHANGED <<listening, st, mu, hw, now, conn, hist>>

\* lines 200, 209-210: readConservation succeeds; want := cur
ReadConservationOk ==
    /\ pc = "readCons"
    /\ loc' = [loc EXCEPT !.cur = hw, !.want = hw]
    /\ pc' = "mode"
    /\ UNCHANGED <<listening, st, mu, hw, now, conn, hist>>

\* mutant of ReadConservationFail: the percentage already read is published
ReadConservationFailPublishing ==
    /\ pc = "readCons"
    /\ mu = 0
    /\ st' = [st EXCEPT !.lastErr = "cons", !.pct = loc.pct]
    /\ loc' = NoLocals
    /\ pc' = EndTick
    /\ hist' = EndHist
    /\ UNCHANGED <<listening, mu, hw, now, conn>>

\* lines 201-207: readConservation fails
ReadConservationFail ==
    /\ pc = "readCons"
    /\ mu = 0
    /\ st' = [st EXCEPT !.lastErr = "cons"]
    /\ loc' = NoLocals
    /\ pc' = EndTick
    /\ hist' = EndHist
    /\ UNCHANGED <<listening, mu, hw, now, conn>>

\* lines 212-239: the display sensor, threshold mode, or the sticky update
TickMode ==
    /\ pc = "mode"
    /\ \E ext \in (IF loc.cfg.Auto THEN BOOLEAN ELSE {FALSE}) :
          IF loc.cfg.MaxPercent <= loc.cfg.ConservationThreshold
          THEN LET d == ThresholdMode(loc.cfg, ext)
               IN  /\ loc' = [loc EXCEPT !.extConn = ext, !.want = d.want,
                                         !.action = d.action]
                   /\ pc' = "write"
                   /\ UNCHANGED <<st>>
          ELSE /\ pc' = "target"
               /\ IF StickyFires(loc.cfg, loc.pct)
                  THEN /\ mu = 0
                       /\ st' = [st EXCEPT !.cfg.LevelReached = TRUE]
                       /\ loc' = [loc EXCEPT !.extConn = ext,
                                             !.cfg.LevelReached = TRUE]
                  ELSE /\ loc' = [loc EXCEPT !.extConn = ext]
                       /\ UNCHANGED <<st>>
    /\ hist' = [hist EXCEPT !.seenReached =
                  @ \/ (hist.snapCurrent /\ loc.pct >= loc.cfg.MaxPercent)]
    /\ UNCHANGED <<listening, mu, hw, now, conn>>

\* mutant of TickTarget: the decision reads the shared configuration, not
\* the snapshot
TickTargetShared ==
    /\ pc = "target"
    /\ LET d == TargetMode(st.cfg, loc.pct, loc.extConn, now)
       IN  /\ (d.clear \/ d.reach) => mu = 0
           /\ st' = [st EXCEPT
                       !.cfg.TargetTime = IF d.clear THEN NoTime ELSE @,
                       !.cfg.LevelReached = IF d.reach THEN TRUE ELSE @]
           /\ loc' = [loc EXCEPT !.want = d.want, !.action = d.action]
           /\ hist' = [hist EXCEPT
                         !.committed.time = IF d.clear THEN NoTime ELSE @,
                         !.completed = @ \/ (d.clear /\ loc.cfg.LevelReached)]
    /\ pc' = "write"
    /\ UNCHANGED <<listening, mu, hw, now, conn>>

\* lines 241-332: the schedule or the immediate sub-branch
TickTarget ==
    /\ pc = "target"
    /\ LET d == TargetMode(loc.cfg, loc.pct, loc.extConn, now)
       IN  /\ (d.clear \/ d.reach) => mu = 0
           /\ st' = [st EXCEPT
                       !.cfg.TargetTime = IF d.clear THEN NoTime ELSE @,
                       !.cfg.LevelReached = IF d.reach THEN TRUE ELSE @]
           /\ loc' = [loc EXCEPT !.want = d.want, !.action = d.action]
           /\ hist' = [hist EXCEPT
                         !.committed.time = IF d.clear THEN NoTime ELSE @,
                         !.completed = @ \/ (d.clear /\ loc.cfg.LevelReached)]
    /\ pc' = "write"
    /\ UNCHANGED <<listening, mu, hw, now, conn>>

\* mutant of TickWrite: dry-run is not consulted
TickWriteInDryRun ==
    /\ pc = "write"
    /\ IF loc.want # loc.cur
       THEN /\ \E ok \in BOOLEAN : hw' = IF ok THEN loc.want ELSE hw
            /\ hist' = [hist EXCEPT !.writes = @ + 1]
       ELSE UNCHANGED <<hw, hist>>
    /\ pc' = "publish"
    /\ UNCHANGED <<listening, st, mu, loc, now, conn>>

\* mutant of TickWrite: the flag is written whether or not it differs
TickWriteAlways ==
    /\ pc = "write"
    /\ IF ~loc.cfg.DryRun
       THEN /\ \E ok \in BOOLEAN : hw' = IF ok THEN loc.want ELSE hw
            /\ hist' = [hist EXCEPT !.writes = @ + 1]
       ELSE UNCHANGED <<hw, hist>>
    /\ pc' = "publish"
    /\ UNCHANGED <<listening, st, mu, loc, now, conn>>

\* lines 338-348: the conditional write to the hardware flag
TickWrite ==
    /\ pc = "write"
    /\ IF loc.want # loc.cur /\ ~loc.cfg.DryRun
       THEN /\ \E ok \in BOOLEAN : hw' = IF ok THEN loc.want ELSE hw
            /\ hist' = [hist EXCEPT !.writes = @ + 1]
       ELSE UNCHANGED <<hw, hist>>
    /\ pc' = "publish"
    /\ UNCHANGED <<listening, st, mu, loc, now, conn>>

\* lines 351-355: publish the measurements
TickPublish ==
    /\ pc = "publish"
    /\ mu = 0
    /\ st' = [st EXCEPT !.pct = loc.pct, !.bstate = loc.state, !.cons = loc.want]
    /\ loc' = NoLocals
    /\ pc' = EndTick
    /\ hist' = EndHist
    /\ UNCHANGED <<listening, mu, hw, now, conn>>

(* ---------------------------- environment ------------------------------ *)
ClockAdvance(instants) ==
    /\ \E t \in instants : t > now /\ now' = t
    /\ UNCHANGED <<pc, listening, st, mu, loc, hw, conn, hist>>

(* ---------------------------- control plane ---------------------------- *)
\* stateString
stateString(b) ==
    CASE b = BatteryStateCharging  -> "charging"
      [] b = BatteryStateDischarge -> "discharging"
      [] OTHER                     -> "unknown"

\* lines 383-387: a connection is accepted and its handler started
Accept(c) ==
    /\ listening
    /\ conn[c].pc = "none"
    /\ \A d \in Conns : d < c => conn[d].pc # "none"
    /\ conn' = [conn EXCEPT ![c].pc = "accepted"]
    /\ UNCHANGED <<pc, listening, st, mu, loc, hw, now, hist>>

\* lines 395-398: the request does not decode
DecodeError(c) ==
    /\ conn[c].pc = "accepted"
    /\ conn' = [conn EXCEPT ![c].pc = "encode", ![c].msg = "decode error"]
    /\ UNCHANGED <<pc, listening, st, mu, loc, hw, now, hist>>

\* mutant of UnknownCmd: an unknown command is answered like a success
UnknownCmdOk(c) ==
    /\ conn[c].pc = "accepted"
    /\ conn' = [conn EXCEPT ![c].pc = "encode", ![c].cmd = "other",
                            ![c].ok = TRUE]
    /\ UNCHANGED <<pc, listening, st, mu, loc, hw, now, hist>>

\* lines 451-452: a command that is none of set, get, status
UnknownCmd(c) ==
    /\ conn[c].pc = "accepted"
    /\ conn' = [conn EXCEPT ![c].pc = "encode", ![c].cmd = "other",
                            ![c].msg = "unknown cmd"]
    /\ UNCHANGED <<pc, listening, st, mu, loc, hw, now, hist>>

\* mutant of MaxRejected: the upper bound is not checked
MaxRejectedNoCeiling(m, cfg) == m < cfg.ConservationThreshold

\* line 403: the range check of a set
MaxRejected(m, cfg) == m < cfg.ConservationThreshold \/ m > P100

\* lines 409-411: a time string that is parsed and fails to parse
TimeRejected(ts) == ts # "" /\ ts # "now" /\ ~Parses(ts)

\* mutant of NewTargetTime: a set without a time leaves the schedule alone
NewTargetTimeKeeps(ts, t) ==
    IF ts # "" /\ ts # "now" THEN parseTimeString(ts, t) ELSE st.cfg.TargetTime

\* lines 408-419: the schedule a set stores
NewTargetTime(ts, t) ==
    IF ts # "" /\ ts # "now" THEN parseTimeString(ts, t) ELSE NoTime

\* lines 400-419: a set takes the lock, validates, and stores the schedule;
\* a rejection has its response encoded with the lock still held (the
\* unlock is deferred)
SetBegin(c, m, ts, a) ==
    /\ conn[c].pc = "accepted"
    /\ mu = 0
    /\ mu' = c
    /\ IF MaxRejected(m, st.cfg)
       THEN /\ conn' = [conn EXCEPT ![c].pc = "encode", ![c].cmd = "set",
                                    ![c].msg = "max must be in range"]
            /\ UNCHANGED <<st, hist>>
       ELSE IF TimeRejected(ts)
       THEN /\ conn' = [conn EXCEPT ![c].pc = "encode", ![c].cmd = "set",
                                    ![c].msg = "invalid time format"]
            /\ UNCHANGED <<st, hist>>
       ELSE /\ st' = [st EXCEPT !.cfg.TargetTime = NewTargetTime(ts, now)]
            /\ conn' = [conn EXCEPT ![c].pc = "apply", ![c].cmd = "set",
                                    ![c].max = m, ![c].auto = a]
            /\ hist' = [hist EXCEPT !.completed = FALSE, !.prev =
                          [set |-> TRUE, max |-> st.cfg.MaxPercent,
                           reached |-> st.cfg.LevelReached]]
    /\ UNCHANGED <<pc, listening, loc, hw, now>>

\* mutant of SetApply: LevelReached is reset only when the maximum changes
SetApplyKeepReached(c) ==
    /\ conn[c].pc = "apply"
    /\ st' = [st EXCEPT !.cfg.MaxPercent = conn[c].max,
                        !.cfg.LevelReached =
                            IF conn[c].max = st.cfg.MaxPercent THEN @ ELSE FALSE,
                        !.cfg.Auto = IF conn[c].auto = "nil" THEN @
                                     ELSE conn[c].auto = "true"]
    /\ conn' = [conn EXCEPT ![c].pc = "encode", ![c].max = 0, ![c].auto = "nil",
                            ![c].ok = TRUE]
    /\ hist' = [hist EXCEPT !.seenReached = FALSE, !.snapCurrent = FALSE,
                   !.committed = [max |-> st'.cfg.MaxPercent,
                                  time |-> st'.cfg.TargetTime,
                                  auto |-> st'.cfg.Auto]]
    /\ UNCHANGED <<pc, listening, mu, loc, hw, now>>

\* lines 421-432: the rest of the set, still under the lock
SetApply(c) ==
    /\ conn[c].pc = "apply"
    /\ st' = [st EXCEPT !.cfg.MaxPercent = conn[c].max,
                        !.cfg.LevelReached = FALSE,
                        !.cfg.Auto = IF conn[c].auto = "nil" THEN @
                                     ELSE conn[c].auto = "true"]
    /\ conn' = [conn EXCEPT ![c].pc = "encode", ![c].max = 0, ![c].auto = "nil",
                            ![c].ok = TRUE]
    /\ hist' = [hist EXCEPT !.seenReached = FALSE, !.snapCurrent = FALSE,
                   !.committed = [max |-> st'.cfg.MaxPercent,
                                  time |-> st'.cfg.TargetTime,
                                  auto |-> st'.cfg.Auto]]
    /\ UNCHANGED <<pc, listening, mu, loc, hw, now>>

\* line 433: the response of an applied set, read from st.cfg when encoded
SetResp(s) ==
    [ok |-> TRUE, max |-> s.cfg.MaxPercent,
     time |-> timeStr(s.cfg.TargetTime), auto |-> s.cfg.Auto]

\* lines 436-448: the response of a get or status, built under the lock
GetResp(s) ==
    [ok |-> TRUE, max |-> s.cfg.MaxPercent, pct |-> s.pct,
     state |-> stateString(s.bstate), cons |-> s.cons,
     time |-> timeStr(s.cfg.TargetTime), auto |-> s.cfg.Auto]

\* mutant of GetStatus: the shared state is read without the lock
GetStatusNoLock(c) ==
    /\ conn[c].pc = "accepted"
    /\ conn' = [conn EXCEPT ![c].pc = "encode", ![c].cmd = "get", ![c].ok = TRUE]
    /\ UNCHANGED <<pc, listening, st, mu, loc, hw, now, hist>>

\* lines 434-449: a get or status locks, builds GetResp(st), unlocks
GetStatus(c) ==
    /\ conn[c].pc = "accepted"
    /\ mu = 0
    /\ conn' = [conn EXCEPT ![c].pc = "encode", ![c].cmd = "get", ![c].ok = TRUE]
    /\ UNCHANGED <<pc, listening, st, mu, loc, hw, now, hist>>

\* mutant of Respond: the handler returns without releasing the lock
RespondKeepsLock(c) ==
    /\ conn[c].pc = "encode"
    /\ conn' = [conn EXCEPT ![c] = [NoConn EXCEPT !.pc = "closed"]]
    /\ hist' = IF mu = c THEN [hist EXCEPT !.prev = NoHist.prev] ELSE hist
    /\ UNCHANGED <<pc, listening, st, mu, loc, hw, now>>

\* lines 396, 404, 412, 433, 450, 452 and the deferred calls of lines 392,
\* 402: the response is encoded on the connection, then the lock (if this
\* handler holds it) is released and the connection closed
Respond(c) ==
    /\ conn[c].pc = "encode"
    /\ mu' = IF mu = c THEN 0 ELSE mu
    /\ conn' = [conn EXCEPT ![c] = [NoConn EXCEPT !.pc = "closed"]]
    /\ hist' = IF mu = c THEN [hist EXCEPT !.prev = NoHist.prev] ELSE hist
    /\ UNCHANGED <<pc, listening, st, loc, hw, now>>

(* ---------------------------- specification ---------------------------- *)
\* the poll loop while its sensors answer
PollOk(I) ==
    \/ Startup
    \/ Ticker
    \/ TickSnapshot
    \/ ReadUPowerOk(I.readings, I.states)
    \/ ReadConservationOk
    \/ TickMode
    \/ TickTarget
    \/ TickWrite
    \/ TickPublish
    \/ ClockAdvance(I.instants)

\* a sensor fails
PollFail ==
    \/ ReadUPowerFail
    \/ ReadConservationFail

\* acceptLoop and the handlers
Control(I) ==
    \/ \E c \in I.conns : Accept(c)
    \/ \E c \in I.conns : DecodeError(c)
    \/ \E c \in I.conns : UnknownCmd(c)
    \/ \E c \in I.conns, m \in I.reqMax, ts \in I.reqTime, a \in I.reqAuto :
          SetBegin(c, m, ts, a)
    \/ \E c \in I.conns : SetApply(c)
    \/ \E c \in I.conns : GetStatus(c)
    \/ \E c \in I.conns : Respond(c)

\* the control plane beside a poll loop whose sensors work
Init == InitIn(CtlInputs)
Next == PollOk(CtlInputs) \/ Control(CtlInputs)
Spec == Init /\ [][Next]_vars

\* the decision engine with failing sensors and one client
InitEngine == InitIn(EngInputs)
NextEngine == PollOk(EngInputs) \/ PollFail \/ Control(EngInputs)
SpecEngine == InitEngine /\ [][NextEngine]_vars

\* one client whose set carries a time, at instants around that time
InitClock == InitIn(ClockInputs)
NextClock == PollOk(ClockInputs) \/ Control(ClockInputs)
SpecClock == InitClock /\ [][NextClock]_vars

\* The response whose size the client chooses: the rejection of a time
\* string echoes the string (lines 412, 601)
EchoesRequest(c) == conn[c].msg = "invalid time format"

\* What the scheduler of the goroutines guarantees: main and every handler
\* take the steps that depend on nothing but the daemon.  Which request a
\* client sends, and whether it reads a response too large for the socket
\* buffer, is the client's choice.
Fairness ==
    /\ WF_vars(PollOk(CtlInputs))
    /\ \A c \in Conns :
          /\ WF_vars(\E m \in CtlInputs.reqMax, ts \in CtlInputs.reqTime,
                        a \in CtlInputs.reqAuto : SetBegin(c, m, ts, a))
          /\ WF_vars(GetStatus(c))
          /\ WF_vars(SetApply(c))
          /\ WF_vars(~EchoesRequest(c) /\ Respond(c))

\* the control plane under that scheduling
SpecLive == Init /\ [][Next]_vars /\ Fairness

\* line 342 returns nil: the write the tick attempts succeeds
WriteSucceeds == TickWrite /\ loc.want # loc.cur /\ hw' = loc.want

\* the poll loop alone, its reads succeeding, scheduled fairly, and a write
\* that is attempted again and again succeeding at last
InitLoop == InitIn(LoopInputs)
NextLoop == PollOk(LoopInputs)
SpecLoop ==
    /\ InitLoop
    /\ [][NextLoop]_vars
    /\ WF_vars(NextLoop)
    /\ SF_vars(WriteSucceeds)

\* one client beside the poll loop: the loop and the handler are scheduled
\* fairly, the client reads its response, and the clock advances
InitSched == InitIn(SchedInputs)
NextSched == PollOk(SchedInputs) \/ Control(SchedInputs)
SpecSched ==
    /\ InitSched
    /\ [][NextSched]_vars
    /\ WF_vars(PollOk(SchedInputs))
    /\ WF_vars(ClockAdvance(SchedInputs.instants))
    /\ \A c \in SchedInputs.conns :
          /\ WF_vars(SetApply(c))
          /\ WF_vars(~EchoesRequest(c) /\ Respond(c))

(* ---------------------------- properties ------------------------------- *)
TargetCfg(cfg) == cfg.MaxPercent > cfg.ConservationThreshold

\* a tick that decides after an earlier tick, under the configuration it
\* works on, has observed percent >= maxPercent, no set applied since
AfterReached == pc = "write" /\ hist.snapSeen /\ hist.snapCurrent

\* C1 as stated: once a tick has observed percent >= maxPercent under a
\* configuration, every later successful tick under that configuration
\* computes desired = 1.
C1_StickyAnyMode == AfterReached => loc.want = 1

\* C1 amended: the same, for configurations in target mode
\* (maxPercent > conservationThreshold).
C1_StickyTargetMode == AfterReached /\ TargetCfg(loc.cfg) => loc.want = 1

C1_Witness ==
    /\ AfterReached
    /\ TargetCfg(loc.cfg)
    /\ loc.pct < loc.cfg.MaxPercent
    /\ loc.cfg.Auto
    /\ ~loc.extConn
    /\ loc.want = 1

\* C2: in threshold mode (maxPercent <= conservationThreshold) the desired
\* flag is 0 when auto is on and no external display is connected, and 1
\* otherwise, whatever percent, levelReached, targetTime and the clock are.
C2_ThresholdMode ==
    pc = "write" /\ ~TargetCfg(loc.cfg)
        => loc.want = IF loc.cfg.Auto /\ ~loc.extConn THEN 0 ELSE 1

C2_Witness ==
    /\ pc = "write"
    /\ ~TargetCfg(loc.cfg)
    /\ loc.cfg.TargetTime # NoTime
    /\ now > loc.cfg.TargetTime
    /\ loc.pct >= loc.cfg.MaxPercent
    /\ loc.want = 0

\* the handler of c has applied a set and is about to encode the response
\* and release the lock
SetApplied(c) == conn[c].pc = "encode" /\ conn[c].cmd = "set" /\ conn[c].ok

\* C3: when the handler that applied a set releases the lock, the shared
\* levelReached is false, whatever it was before and whether or not the
\* maximum changed.
C3_SetResetsLevelReached ==
    \A c \in Conns : SetApplied(c) => mu = c /\ ~st.cfg.LevelReached

C3_Witness ==
    \E c \in Conns :
       /\ SetApplied(c)
       /\ hist.prev.reached
       /\ hist.prev.max = st.cfg.MaxPercent

\* a time string that handleConn hands to the parser and that does not parse
BadTime(ts) == ts # "" /\ ts # "now" /\ ts \notin DOMAIN Layout1504

\* C4: a set with max < conservationThreshold, with max > 100 or with a time
\* string that does not parse is rejected, never applied; the rejection
\* changes nothing of the shared state, is answered with ok = false and a
\* message, and a get that follows reports what it would have reported
\* before.
C4_RejectedSetChangesNothing ==
    [][\A c \in Conns :
          conn[c].pc = "accepted" /\ conn'[c].cmd = "set" =>
             IF conn'[c].pc = "encode"
             THEN /\ st' = st
                  /\ ~conn'[c].ok
                  /\ conn'[c].msg # ""
                  /\ GetResp(st') = GetResp(st)
             ELSE /\ conn'[c].max >= st.cfg.ConservationThreshold
                  /\ conn'[c].max <= P100
                  /\ \A ts \in CtlInputs.reqTime :
                        BadTime(ts) =>
                           ~SetBegin(c, conn'[c].max, ts, conn'[c].auto)]_vars

C4_Witness ==
    \E c \in Conns :
       /\ conn[c].pc = "encode"
       /\ conn[c].cmd = "set"
       /\ conn[c].msg = "invalid time format"
       /\ st.cfg.TargetTime # NoTime
       /\ st.cfg.LevelReached
       /\ st.cfg.Auto

C6_OneWriteWhenDifferent ==
    /\ hist.writes <= 1
    /\ hist.writes = 1 => pc = "publish" /\ loc.want # loc.cur

C6_Witness == hist.writes = 1 /\ loc.want # loc.cur /\ hw = loc.want

\* the step in which a tick gives up because a read failed
FailedRead == pc \in {"readPower", "readCons"} /\ pc' \in {"wait", "done"}

\* the steps of a tick before its reads are through
BeforeDecision ==
    \/ pc = "snap" /\ pc' = "readPower"
    \/ pc = "readPower" /\ pc' = "readCons"

\* C7: a tick whose power read or flag read fails writes nothing to the
\* hardware, decides nothing, and leaves the configuration and the
\* published percent, batteryState and conservation as they were; only
\* lastErr changes.
C7_FailedReadChangesOnlyLastErr ==
    [][/\ BeforeDecision => st' = st /\ hw' = hw /\ hist'.writes = 0
       /\ FailedRead =>
            /\ st' = [st EXCEPT !.lastErr = st'.lastErr]
            /\ st'.lastErr \in {"upower", "cons"}
            /\ hw' = hw
            /\ hist.writes = 0]_vars

C7_Witness ==
    /\ pc = "wait"
    /\ st.lastErr = "cons"
    /\ st.pct = P60
    /\ st.cfg.LevelReached
    /\ hw # st.cons

\* C8 as stated: after a tick whose reads succeeded, the published
\* conservation value is the value of the hardware flag.
C8_PublishedIsInEffect ==
    [][pc = "publish" /\ pc' # "publish" => st'.cons = hw']_vars

\* C9: a get, and the snapshot of a tick, see the (max, time, auto) of the
\* configuration as it stood after a whole set (or at startup), the schedule
\* possibly cleared by the poll loop since; never part of a set.
C9_AtomicConfig ==
    [][/\ \A c \in Conns :
             conn[c].pc = "accepted" /\ conn'[c].pc = "encode"
                                     /\ conn'[c].cmd = "get"
               => /\ GetResp(st).max = hist.committed.max
                  /\ GetResp(st).auto = hist.committed.auto
                  /\ GetResp(st).time = timeStr(hist.committed.time)
       /\ pc = "snap" /\ pc' = "readPower"
               => /\ loc'.cfg.MaxPercent = hist.committed.max
                  /\ loc'.cfg.Auto = hist.committed.auto
                  /\ loc'.cfg.TargetTime = hist.committed.time]_vars

C9_Witness ==
    \E c \in Conns :
       /\ conn[c].pc = "encode" /\ conn[c].cmd = "get"
       /\ hist.committed.time # NoTime
       /\ hist.committed.auto
       /\ st.cfg.MaxPercent = P95

\* C10: a tick that finds the schedule set, levelReached false and the
\* deadline passed clears the shared targetTime and wants what the immediate
\* sub-branch wants for the same percent, auto, display and levelReached.
C10_MissedDeadline ==
    [][pc = "target" /\ pc' = "write" /\ loc.cfg.TargetTime # NoTime
          /\ ~loc.cfg.LevelReached /\ now > loc.cfg.TargetTime
        => /\ st'.cfg.TargetTime = NoTime
           /\ loc'.want =
                 ImmediateMode([loc.cfg EXCEPT !.TargetTime = NoTime],
                               loc.extConn).want]_vars

C10_Witness ==
    /\ pc = "write"
    /\ loc.action = "disable_conservation_immediate"
    /\ st.cfg.TargetTime = NoTime
    /\ loc.want = 0

\* the labels the immediate sub-branch (lines 312-331) gives
ImmediateLabels ==
    {"enable_conservation_level_reached",
     "enable_conservation_display_connected",
     "disable_conservation_display_disconnected",
     "disable_conservation_charging_to_target"}

\* C11: a tick whose snapshot has the schedule set and levelReached true
\* (after the sticky update) and that finds now > targetTime clears the
\* shared targetTime and wants 1; from then on, until a set is applied,
\* every tick that decides is in target mode with no schedule and takes the
\* immediate sub-branch.
C11_ScheduleCompletion ==
    [][/\ pc = "target" /\ pc' = "write" /\ loc.cfg.TargetTime # NoTime
             /\ loc.cfg.LevelReached /\ now > loc.cfg.TargetTime
          => /\ st'.cfg.TargetTime = NoTime
             /\ loc'.want = 1
             /\ hist'.completed
       /\ pc = "mode" /\ hist.completed => pc' = "target"
       /\ pc = "target" /\ pc' = "write" /\ hist.completed
          => /\ loc.cfg.TargetTime = NoTime
             /\ st.cfg.TargetTime = NoTime
             /\ loc'.action \in ImmediateLabels
             /\ loc'.want = ImmediateMode(loc.cfg, loc.extConn).want]_vars

C11_Witness ==
    /\ pc = "write"
    /\ hist.completed
    /\ loc.cfg.TargetTime = NoTime
    /\ loc.cfg.LevelReached
    /\ loc.pct < loc.cfg.MaxPercent
    /\ loc.action = "enable_conservation_level_reached"

\* the decision step of a tick in target mode (lines 241-332)
Decides == pc = "target" /\ pc' = "write"

\* scenario 1: max 95, threshold 80, auto off, levelReached false, schedule
\* 09:00, percent 60, decided at 02:00
Scenario1 ==
    /\ loc.cfg.MaxPercent = P95
    /\ loc.cfg.ConservationThreshold = P80
    /\ ~loc.cfg.Auto
    /\ ~loc.cfg.LevelReached
    /\ loc.cfg.TargetTime = 9 * Hour
    /\ loc.pct = P60
    /\ now = T0200

\* the charge window of scenario 1 is 35 minutes, the start time 08:25, and
\* the clock is before it
Scenario1Window ==
    /\ chargingTimeNeeded(loc.cfg, loc.pct) = 35 * Minute
    /\ startTime(loc.cfg, loc.pct) = 8 * Hour + 25 * Minute
    /\ now < startTime(loc.cfg, loc.pct)

\* C12 as stated: the tick of scenario 1 has a charge window of 35 minutes,
\* a start time of 08:25 and wants 0.
C12_Scenario1WantsOff ==
    [][Decides /\ Scenario1 => Scenario1Window /\ loc'.want = 0]_vars

\* C12 amended: the tick of scenario 1 has a charge window of 35 minutes, a
\* start time of 08:25 and wants 1 (it waits for the window with the flag on).
C12_Scenario1WantsOn ==
    [][Decides /\ Scenario1
         => /\ Scenario1Window
            /\ loc'.want = 1
            /\ loc'.action = "enable_conservation_waiting_for_schedule"
            /\ st' = st]_vars

C12_Witness ==
    /\ pc = "write"
    /\ loc.cfg.MaxPercent = P95
    /\ ~loc.cfg.Auto
    /\ ~loc.cfg.LevelReached
    /\ loc.cfg.TargetTime = 9 * Hour
    /\ loc.pct = P60
    /\ now = T0200
    /\ loc.action = "enable_conservation_waiting_for_schedule"
    /\ loc.want = 1

\* targetTime - (maxPercent - percent) minutes, fractions of a percent kept
ExactStartTime(cfg, pct) ==
    cfg.TargetTime - ((cfg.MaxPercent - pct) * Minute) \div Percent

\* the tick waits for the charging window
Waiting ==
    /\ loc.cfg.TargetTime # NoTime
    /\ ~loc.cfg.LevelReached
    /\ loc.pct < loc.cfg.MaxPercent
    /\ ~(now > ExactStartTime(loc.cfg, loc.pct))

\* scenario 2: max 95, auto off, schedule 09:00, percent 70, decided at 08:30
Scenario2 ==
    /\ loc.cfg.MaxPercent = P95
    /\ ~loc.cfg.Auto
    /\ loc.cfg.TargetTime = 9 * Hour
    /\ ~loc.cfg.LevelReached
    /\ loc.pct = P70
    /\ now = T0830

\* C13: a tick in the schedule sub-branch with levelReached false,
\* percent < maxPercent and the clock not past targetTime - (maxPercent -
\* percent) minutes wants 0 when auto is on and no external display is
\* connected, and 1 otherwise; in scenario 2 the start time is 08:35 and the
\* tick wants 1.
C13_WaitingForWindow ==
    [][/\ Decides /\ Waiting
          => /\ loc'.want = IF loc.cfg.Auto /\ ~loc.extConn THEN 0 ELSE 1
             /\ st' = st
       /\ Decides /\ Scenario2
          => /\ Waiting
             /\ startTime(loc.cfg, loc.pct) = 8 * Hour + 35 * Minute
             /\ loc'.want = 1]_vars

C13_Witness ==
    /\ pc = "write"
    /\ loc.cfg.MaxPercent = P95
    /\ ~loc.cfg.Auto
    /\ loc.cfg.TargetTime = 9 * Hour
    /\ ~loc.cfg.LevelReached
    /\ loc.pct = P70
    /\ now = T0830
    /\ loc.action = "enable_conservation_waiting_for_schedule"
    /\ loc.want = 1

\* scenario 4: auto on, no external display, max 100 above the threshold 80,
\* levelReached false, no schedule
Scenario4 ==
    /\ loc.cfg.Auto
    /\ ~loc.extConn
    /\ loc.cfg.MaxPercent = P100
    /\ loc.cfg.ConservationThreshold = P80
    /\ ~loc.cfg.LevelReached
    /\ loc.cfg.TargetTime = NoTime

\* C14: a tick in target mode with no schedule wants 1 if levelReached (as
\* it stands after the sticky update); otherwise, with auto on, 1 exactly
\* when an external display is connected; otherwise 0.  It writes nothing to
\* the shared state.  Scenario 4 wants 0.
C14_ImmediateBranch ==
    [][/\ Decides /\ TargetCfg(loc.cfg) /\ loc.cfg.TargetTime = NoTime
          => /\ loc'.want = IF loc.cfg.LevelReached THEN 1
                            ELSE IF loc.cfg.Auto
                                 THEN (IF loc.extConn THEN 1 ELSE 0)
                                 ELSE 0
             /\ loc'.action \in ImmediateLabels
             /\ st' = st
       /\ Decides /\ Scenario4 => loc'.want = 0]_vars

C14_Witness ==
    /\ pc = "write"
    /\ Scenario4
    /\ loc.action = "disable_conservation_display_disconnected"
    /\ loc.want = 0

\* lines 209-336 as a function of the inputs of the engine: the snapshot,
\* the percent, the display and the clock (the observed flag is an input
\* that no branch reads: every branch assigns want)
Decision(cfg, pct, extConn, t) ==
    LET c == [cfg EXCEPT !.LevelReached = @ \/ StickyFires(cfg, pct)]
        d == IF cfg.MaxPercent <= cfg.ConservationThreshold
             THEN ThresholdMode(cfg, extConn)
             ELSE TargetMode(c, pct, extConn, t)
    IN  <<d.want, d.action>>

\* C15: the (desired, label) pair of a tick is a function of the percent,
\* the snapshot of the configuration (levelReached and targetTime included),
\* the display and the clock read by the tick: whatever the shared state,
\* the hardware flag, the connections and the past are, a tick with these
\* inputs ends with Decision of these inputs, so two evaluations with
\* identical inputs give the identical pair.
C15_DecisionIsFunction ==
    [][/\ pc = "mode" /\ pc' = "write"
          => <<loc'.want, loc'.action>> =
                Decision(loc.cfg, loc.pct, loc'.extConn, now)
       /\ pc = "mode" /\ pc' = "target"
          => /\ loc'.pct = loc.pct
             /\ \A t \in EngInputs.instants :
                   Decision(loc'.cfg, loc.pct, loc'.extConn, t) =
                   Decision(loc.cfg, loc.pct, loc'.extConn, t)
       /\ Decides
          => <<loc'.want, loc'.action>> =
                Decision(loc.cfg, loc.pct, loc.extConn, now)
       /\ pc = "write" => loc'.want = loc.want /\ loc'.action = loc.action
       /\ pc = "publish" /\ pc' # "publish" => st'.cons = loc.want]_vars

\* a tick has decided from a snapshot that a set has replaced meanwhile
C15_Witness ==
    /\ pc = "write"
    /\ loc.cfg.TargetTime = NoTime
    /\ st.cfg.TargetTime # NoTime
    /\ loc.cfg.MaxPercent = P100
    /\ st.cfg.MaxPercent = P95
    /\ st.cfg.Auto /\ ~loc.cfg.Auto
    /\ loc.action = "disable_conservation_charging_to_target"
    /\ loc.cur = 1

\* the handler of c answers a request that did not decode or whose command
\* is unknown
Refused(c) == conn[c].pc = "encode" /\ conn[c].cmd \notin {"set", "get"}

\* C16: a request that does not decode, and a request whose cmd is none of
\* get, status, set, get a response with ok = false and a message; the
\* handler never takes the lock, leaves the shared configuration and
\* measurements as they are, and then closes the connection.
C16_RefusedRequest ==
    [][\A c \in Conns :
          /\ conn[c].pc = "accepted" /\ Refused(c)'
             => /\ ~conn'[c].ok
                /\ conn'[c].msg \in {"decode error", "unknown cmd"}
                /\ st' = st
                /\ mu' = mu
          /\ Refused(c) => mu # c
          /\ Refused(c) /\ conn'[c] # conn[c]
             => /\ conn'[c].pc = "closed"
                /\ st' = st
                /\ mu' = mu]_vars

C16_Witness ==
    \E c, d \in Conns :
       /\ conn[c].pc = "closed"
       /\ conn[d].pc = "encode"
       /\ conn[d].msg = "unknown cmd"
       /\ st.cfg.TargetTime # NoTime
       /\ st.cfg.LevelReached

\* the handler of c accepts a set that carries a time HH:MM
SetWithTime(c) ==
    /\ conn[c].pc = "accepted"
    /\ conn'[c].pc = "apply"
    /\ st'.cfg.TargetTime # NoTime

\* the first instant at the wall-clock time of tt that is at least one
\* minute after t
NextOccurrence(tt, t) ==
    LET tod == tt % Day
        first == CHOOSE k \in 0 .. 2 :
                    /\ (t \div Day + k) * Day + tod >= t + Minute
                    /\ \A j \in 0 .. (k - 1) :
                          (t \div Day + j) * Day + tod < t + Minute
    IN  (t \div Day + first) * Day + tod

\* C17 as stated: the targetTime an accepted set stores for HH:MM is the
\* next instant at that wall-clock time that is at least one minute after
\* the request; it is in the future and at most 24 hours and one minute
\* ahead.
C17_NextOccurrenceAfterMinute ==
    [][\A c \in Conns :
          SetWithTime(c)
            => /\ st'.cfg.TargetTime = NextOccurrence(st'.cfg.TargetTime, now)
               /\ st'.cfg.TargetTime >= now + Minute
               /\ st'.cfg.TargetTime <= now + Day + Minute]_vars

\* what the code does keep: the stored instant is at the requested
\* wall-clock time, today when that is at least a minute ahead and tomorrow
\* otherwise, in the future and less than 24 hours and one minute ahead
C17_TodayOrTomorrow ==
    [][\A c \in Conns :
          SetWithTime(c)
            => LET tt    == st'.cfg.TargetTime
                   today == (now \div Day) * Day + (tt % Day)
               IN  /\ tt = IF today >= now + Minute THEN today ELSE today + Day
                   /\ tt > now
                   /\ tt < now + Day + Minute]_vars

\* a step in which a tick decides: threshold mode, or target mode
DecidesAny == (pc = "mode" \/ pc = "target") /\ pc' = "write"

\* 1 when the display the tick has sensed is connected, 0 when not
FollowsDisplay == IF loc'.extConn THEN 1 ELSE 0

\* the clock is inside the charging window of the schedule of the snapshot
InWindow ==
    /\ loc.cfg.TargetTime # NoTime
    /\ ~(now > loc.cfg.TargetTime)
    /\ now > startTime(loc.cfg, loc.pct)

AppliesSetWithoutAuto(c) ==
    conn[c].pc = "apply" /\ conn[c].auto = "nil" /\ conn'[c].pc = "encode"

\* C19 as stated: after a set without the auto option is applied, the
\* daemon's auto is false, whatever it was before.
C19_SetWithoutAutoDisables ==
    [][\A c \in Conns : AppliesSetWithoutAuto(c) => ~st'.cfg.Auto]_vars

\* what the code does: a set without the auto option leaves auto as it was
C19_SetWithoutAutoKeeps ==
    [][\A c \in Conns :
          AppliesSetWithoutAuto(c) => st'.cfg.Auto = st.cfg.Auto]_vars

\* the positions of main inside runOnce
InTick == {"snap", "readPower", "readCons", "mode", "target", "write", "publish"}

\* C20: with the once option a daemon that passes its startup checks runs
\* one tick and exits: the tick is entered from startup only, its end is the
\* end of main, nothing follows the end, the ticker is never waited for, the
\* accept loop is never started, and no connection is ever accepted, so no
\* set or get is served and only the tick writes the shared state.
C20_SingleShot ==
    [][st.cfg.Once
         => /\ st'.cfg.Once
            /\ ~listening'
            /\ \A c \in Conns : conn'[c].pc = "none"
            /\ mu' = 0
            /\ pc' # "wait"
            /\ pc' = "start" => pc = "start"
            /\ pc' = "snap" => pc \in {"start", "snap"}
            /\ pc \in InTick /\ pc' \notin InTick => pc' = "done"
            /\ pc' = "done" => pc \in InTick \cup {"done"}
            /\ pc = "done" => pc' = "done" /\ st' = st /\ hw' = hw
            /\ st'.cfg.MaxPercent = st.cfg.MaxPercent
            /\ st'.cfg.Auto = st.cfg.Auto]_vars

C20_Witness ==
    /\ pc = "done"
    /\ st.cfg.Once
    /\ ~listening
    /\ st.pct = P95
    /\ st.cons = 1
    /\ st.cfg.LevelReached
    /\ now = T0901

\* C21: a set that passes validation replaces the schedule: the shared
\* targetTime becomes nil when the time field is absent or "now", and an
\* instant at the requested wall-clock time when it is a valid HH:MM; the
\* rest of the set installs the requested max (and auto when given) without
\* touching the schedule, nothing changes the configuration before the
\* response is encoded, and the response carries that max, time and auto.
C21_SetReplacesSchedule ==
    [][\A c \in Conns :
          /\ conn[c].pc = "accepted" /\ conn'[c].pc = "apply"
             => \A ts \in CtlInputs.reqTime :
                   SetBegin(c, conn'[c].max, ts, conn'[c].auto)
                     => IF ts \in {"", "now"}
                        THEN st'.cfg.TargetTime = NoTime
                        ELSE /\ st'.cfg.TargetTime # NoTime
                             /\ st'.cfg.TargetTime % Day = Layout1504[ts] * Minute
                             /\ timeStr(st'.cfg.TargetTime) = ts
          /\ conn[c].pc = "apply" /\ conn'[c].pc = "encode"
             => /\ st'.cfg.TargetTime = st.cfg.TargetTime
                /\ st'.cfg.MaxPercent = conn[c].max
                /\ st'.cfg.Auto = IF conn[c].auto = "nil" THEN st.cfg.Auto
                                  ELSE conn[c].auto = "true"
                /\ conn'[c].ok
                /\ SetResp(st') = [ok |-> TRUE, max |-> conn[c].max,
                                   time |-> timeStr(st.cfg.TargetTime),
                                   auto |-> st'.cfg.Auto]
          /\ SetApplied(c) => st'.cfg = st.cfg]_vars

\* a set without a time is being applied while a schedule was pending
C21_Witness ==
    \E c \in Conns :
       /\ conn[c].pc = "apply"
       /\ st.cfg.TargetTime = NoTime
       /\ hist.committed.time # NoTime
       /\ hist.prev.reached

\* the handler of c is at an I/O step on its connection: decoding the
\* request (lines 393-395) or encoding the response
ConnIO(c) == conn[c].pc \in {"accepted", "encode"}

\* C22 as stated: no handler is at an I/O step on its connection while it
\* holds the lock of the shared state.  (The poll loop's lock sections are
\* single steps of the model: they hold assignments only.)
C22_NoLockAcrossIO == \A c \in Conns : ConnIO(c) => mu # c

\* the poll loop is at a step that takes the lock
TickNeedsLock == pc \in {"snap", "publish"}

\* C23 as stated: while a handler holds the lock it is never waiting for its
\* own client, so a poll tick at a lock section, or a request that another
\* connection has yet to be served, never waits for a client of another
\* connection to read its response.
C23_NoClientStalls ==
    \A c \in Conns :
       mu = c /\ conn[c].pc = "encode"
          => /\ ~TickNeedsLock
             /\ \A d \in Conns \ {c} : conn[d].pc # "accepted"

\* what the code does keep: a handler waiting for its request, and a
\* handler answering a get, a decode error or an unknown command, holds no
\* lock
C23_OnlySetHoldsLock ==
    \A c \in Conns :
       mu = c => conn[c].cmd = "set" /\ conn[c].pc \in {"apply", "encode"}

\* the snapshot has a schedule, levelReached is false after the sticky
\* update, and the clock is not past the target
BeforeDeadline ==
    /\ loc.cfg.TargetTime # NoTime
    /\ ~loc.cfg.LevelReached
    /\ ~(now > loc.cfg.TargetTime)

\* C24 as stated: a tick in the schedule sub-branch with levelReached false,
\* the clock not past targetTime and past targetTime - (maxPercent -
\* percent) minutes wants 0, whatever auto and the display are.
C24_InWindowWantsOff ==
    [][Decides /\ BeforeDeadline /\ now > ExactStartTime(loc.cfg, loc.pct)
         => loc'.want = 0]_vars

\* what the code does keep: the same with the window counted in whole
\* minutes, the fraction of maxPercent - percent dropped
C24_InTruncatedWindowWantsOff ==
    [][Decides /\ BeforeDeadline /\ now > startTime(loc.cfg, loc.pct)
         => /\ loc'.want = 0
            /\ loc'.action = "disable_conservation_scheduled_charging"
            /\ st' = st]_vars

\* C25: in dry-run mode (a startup option that no request changes) no step
\* of the daemon writes the hardware flag or attempts to, whatever the tick
\* wants: the flag keeps the value it had at startup.
C25_DryRunWritesNothing ==
    [][st.cfg.DryRun
         => /\ hw' = hw
            /\ hist'.writes = 0
            /\ st'.cfg.DryRun
            /\ pc \in {"readPower", "readCons", "mode", "target", "write"}
                  => loc.cfg.DryRun]_vars

C25_Witness ==
    /\ pc = "publish"
    /\ loc.cfg.DryRun
    /\ loc.want = 1
    /\ loc.cur = 0
    /\ hw = 0
    /\ hist.writes = 0
    /\ loc.action = "enable_conservation_level_reached"

\* the tick has attempted its write and the flag is not what it wrote: the
\* write failed
WriteFailed == pc = "publish" /\ hist.writes = 1 /\ hw # loc.want

\* the tick ends
TickEnds == pc \in InTick /\ pc' \notin InTick

\* C26 as stated: a tick in which a read or the write of the hardware flag
\* fails ends with that failure recorded in the shared lastErr, and main
\* goes on to wait for the next tick.
C26_FailureRecorded ==
    [][/\ FailedRead => st'.lastErr \in {"upower", "cons"}
       /\ TickEnds /\ WriteFailed => st'.lastErr \notin {"", "upower", "cons"}
       /\ TickEnds /\ ~st.cfg.Once => pc' = "wait"]_vars

\* what the code does keep: a failed read is recorded and the loop goes on;
\* a failed write leaves lastErr as it was
C26_ReadFailureRecorded ==
    [][/\ FailedRead => st'.lastErr \in {"upower", "cons"}
       /\ TickEnds /\ WriteFailed => st'.lastErr = st.lastErr
       /\ TickEnds /\ ~st.cfg.Once => pc' = "wait"]_vars

\* a handler goes through decode, act, encode, close, in this order and once
OneTransaction ==
    [][\A c \in Conns :
          conn'[c] # conn[c]
            => CASE conn[c].pc = "none"     -> conn'[c].pc = "accepted"
                 [] conn[c].pc = "accepted" -> conn'[c].pc \in {"apply", "encode"}
                 [] conn[c].pc = "apply"    -> conn'[c].pc = "encode"
                 [] conn[c].pc = "encode"   -> conn'[c].pc = "closed"
                 [] OTHER                   -> FALSE]_vars

\* C27 as stated: a handler decodes one request, encodes one response and
\* closes the connection, and every handler whose request has arrived
\* terminates.
C27_OneTransactionTerminates ==
    /\ OneTransaction
    /\ \A c \in Conns : conn[c].pc = "accepted" ~> conn[c].pc = "closed"

\* what the code does keep: the order of the transaction, and termination
\* of a handler once its response is on the way, unless its size is the
\* client's choice
C27_OneTransactionOnly ==
    /\ OneTransaction
    /\ \A c \in Conns :
          conn[c].pc \in {"apply", "encode"} /\ ~EchoesRequest(c)
             ~> conn[c].pc = "closed"

\* C28 as stated: the shared levelReached is true only if a tick working on
\* the configuration now installed (its snapshot taken after the last
\* applied set) has found percent >= maxPercent.
C28_LevelReachedIsCurrent == st.cfg.LevelReached => hist.seenReached

\* the poll loop clears the shared schedule
TickClears ==
    /\ pc \in InTick
    /\ pc' # pc
    /\ st.cfg.TargetTime # NoTime
    /\ st'.cfg.TargetTime = NoTime

\* C29 as stated: the poll loop clears the shared targetTime only when the
\* clock is past the targetTime stored at that moment; a schedule installed
\* while the tick was in progress is not cleared on account of the expired
\* schedule of the snapshot.
C29_ClearsOnlyExpired ==
    [][TickClears => now > st.cfg.TargetTime]_vars

\* what the code does keep: the tick clears only when the clock is past the
\* targetTime of its snapshot
C29_ClearsWhenSnapshotExpired ==
    [][TickClears
         => loc.cfg.TargetTime # NoTime /\ now > loc.cfg.TargetTime]_vars

\* the handler of c is running
Running(c) == conn[c].pc \in {"accepted", "apply", "encode"}

\* C30: the lock is taken only when free and only by a handler that does
\* not hold it; a handler that has returned holds no lock, on the rejection
\* paths as on the others; and whoever holds the lock has a step to take
\* that does not need the lock, so the units of execution are never all
\* blocked on it.
C30_LockDiscipline ==
    /\ [][\A c \in Conns :
             /\ mu' = c /\ mu # c => mu = 0 /\ conn[c].pc = "accepted"
             /\ mu = c /\ mu' # c => mu' = 0 /\ conn'[c].pc = "closed"]_vars
    /\ [](\A c \in Conns : mu = c => Running(c))
    /\ [](mu # 0 => ENABLED (SetApply(mu) \/ Respond(mu)))
    /\ [](mu \in {0} \cup Conns)

\* a rejected set holds the lock while the tick and another connection wait
C30_Witness ==
    \E c, d \in Conns :
       /\ mu = c
       /\ conn[c].msg = "max must be in range"
       /\ conn[d].pc = "accepted"
       /\ pc = "publish"
       /\ st.pct = P95
       /\ st.cfg.LevelReached

\* C31: outside dry-run, with no set, reads that succeed and a write that
\* succeeds at last, from some tick on the hardware flag is what the ticks
\* want and stays so.  Every tick reads the flag again, so a tick after a
\* failed write attempts the write again, and when the flag is what the tick
\* wants no write is attempted.
C31_Converges ==
    /\ [][/\ pc = "readCons" /\ pc' = "mode" => loc'.cur = hw
          /\ pc = "write" /\ pc' = "publish" /\ hw # loc.want
             => hist'.writes = 1 /\ hw' \in {hw, loc.want}
          /\ pc = "write" /\ pc' = "publish" /\ hw = loc.want
             => hist'.writes = 0 /\ hw' = hw]_vars
    /\ <>[](pc \in {"publish", "wait", "snap"} /\ st.pct # 0 => hw = st.cons)
    /\ <>[](pc = "publish" => hw = loc.want /\ hist.writes = 0)

\* a tick succeeds in the write that the tick before it failed in
C31_Witness ==
    /\ pc = "publish"
    /\ hist.writes = 1
    /\ hw = loc.want
    /\ st.pct # 0
    /\ st.cons = loc.want
    /\ loc.cur # loc.want

\* the last instant of the clock
LastInstant == T0901

\* a set has been applied that left a schedule in target mode
Scheduled ==
    /\ st.cfg.TargetTime # NoTime
    /\ \A c \in Conns : conn[c].pc # "apply"
    /\ st.cfg.MaxPercent > st.cfg.ConservationThreshold

\* C32: in target mode a schedule whose deadline the clock passes is
\* cleared at last when no other set is applied and the ticks succeed.  The
\* tick that holds the schedule and decides after the deadline clears it,
\* with levelReached or without, and nothing but a set installs a schedule.
C32_ScheduleIsCleared ==
    /\ (Scheduled /\ st.cfg.TargetTime < LastInstant)
          ~> (st.cfg.TargetTime = NoTime)
    /\ [][/\ Decides /\ loc.cfg.TargetTime # NoTime /\ now > loc.cfg.TargetTime
             => st'.cfg.TargetTime = NoTime
          /\ st.cfg.TargetTime = NoTime /\ st'.cfg.TargetTime # NoTime
             => \E c \in Conns : conn[c].pc = "accepted" /\ conn'[c].pc = "apply"
         ]_vars

\* a tick has cleared a schedule whose deadline was missed
C32_Witness ==
    /\ pc = "write"
    /\ loc.cfg.TargetTime # NoTime
    /\ now > loc.cfg.TargetTime
    /\ ~loc.cfg.LevelReached
    /\ st.cfg.TargetTime = NoTime

====
